---- MODULE Spec2Model ----
(***************************************************************************)
(* Model of the demultiplexing / audio synchronisation core of sfeMovie:   *)
(* Stream (src/src/Stream.cpp), AudioStream (src/src/AudioStream.cpp) and  *)
(* the Demuxer interface (src/src/Demuxer.hpp; Demuxer.cpp is not part of  *)
(* the sources, the Demuxer operations follow the written specification).  *)
(*                                                                         *)
(* Times are sf::Time values, i.e. integral microseconds.  Timestamps are  *)
(* integral ticks of the stream's time_base.  The configurations used keep *)
(* every double/float intermediate exactly representable (positions below  *)
(* 1001 ms, durations for which sf::seconds(float) is exact), so the only  *)
(* precision loss modelled is the one the code performs on purpose or by   *)
(* conversion: truncation to Int32 milliseconds and to Int64 microseconds. *)
(* Packets always carry a non-zero duration (the frame-rate guess of       *)
(* packetDuration is outside the model).                                   *)
(***************************************************************************)
EXTENDS Integers, Naturals, Sequences, FiniteSets, Bags, TLC

\* ------------------------------------------------------------------------
\* Bounds of the model
\* ------------------------------------------------------------------------
MaxQueue == 3          \* longest queue built by push/prepend in SpecQueue
MaxOps == 6            \* number of push/prepend/pop events in SpecQueue
MaxSource == 2         \* packets left in the container in SpecQueue
MaxPacketId == 7       \* packet identities handed out in SpecQueue
MaxSeekPackets == 4    \* packets of a small seek configuration
MaxDecodeAttempts == 2 \* failed decodePacket calls per packet in SpecChunk
MaxChunkPackets == 3   \* packets available to one chunk request

\* ------------------------------------------------------------------------
\* Program constants
\* ------------------------------------------------------------------------
NoPts == -2000000000           \* AV_NOPTS_VALUE
BadTimestamp == -424242        \* initial value of timestamp
InitialDstNbSamples == 1024    \* initial resampler output capacity
BytesPerSample == 2            \* sizeof(sf::Int16)
StereoChannelCount == 2        \* AV_CHANNEL_LAYOUT_STEREO.nb_channels
MicrosPerSecond == 1000000
BufferSeconds == 2             \* "Alloc a two seconds buffer"
OvershootTolerance == 1        \* sf::microseconds(1)

Streams == {0, 1, 2, 3}
AudioStreams == {0, 1}
VideoStreams == {2, 3}
None == -1                     \* nullptr stream / packet
TestStream == 0

Status == {"Stopped", "Paused", "Playing"}

VARIABLES
    m_packetList,       \* [Streams -> Seq(packet)]   Stream::m_packetList
    m_status,           \* [Streams -> Status]        Stream::m_status
    m_extraAudioTime,   \* [AudioStreams -> Int]      microseconds
    sfStatus,           \* [AudioStreams -> Status]   sf::SoundStream::getStatus()
    m_stream,           \* stream parameters (time base, start time, rate, codec)
    m_maxDstNbSamples,  \* [AudioStreams -> Nat]
    m_dstNbSamples,     \* [AudioStreams -> Nat]
    container,          \* Seq(packet): what av_read_frame will still deliver
    m_eofReached,       \* Demuxer::m_eofReached
    m_pendingDataForActiveStreams, \* [Streams -> Seq(packet)]
    m_connectedAudioStream,
    m_connectedVideoStream,
    observers,          \* streams registered with the Timer
    nextId,             \* next packet identity
    unrefs,             \* bag of packet ids: one copy per av_packet_unref
    call,               \* the last operation: name, inputs, outcome, log
    sink,               \* progress of the onGetData call of the sink thread
    hist,               \* insertion / pop history of TestStream's queue
    m_readerMutex,      \* owner and depth of TestStream's queue lock
    m_synchronized,     \* owner and depth of the Demuxer's lock
    running             \* per thread: the queue operation in progress

vars == <<m_packetList, m_status, m_extraAudioTime, sfStatus, m_stream,
          m_maxDstNbSamples, m_dstNbSamples, container, m_eofReached,
          m_pendingDataForActiveStreams, m_connectedAudioStream,
          m_connectedVideoStream, observers, nextId, unrefs, call, sink, hist,
          m_readerMutex, m_synchronized, running>>

queueVars == <<m_packetList, nextId, hist>>
statusVars == <<m_status, sfStatus>>
resamplerVars == <<m_maxDstNbSamples, m_dstNbSamples>>
demuxVars == <<container, m_eofReached, m_pendingDataForActiveStreams>>
selectVars == <<m_connectedAudioStream, m_connectedVideoStream, observers>>
lockVars == <<m_readerMutex, m_synchronized, running>>

Threads == {"control", "sink"}
NoThread == "none"
IdleThread == [op |-> "none", pc |-> 0, accessing |-> FALSE, empty |-> FALSE]

\* ------------------------------------------------------------------------
\* Helpers
\* ------------------------------------------------------------------------
RECURSIVE GCD(_, _)
GCD(a, b) == IF b = 0 THEN a ELSE GCD(b, a % b)

\* C++ conversion of a quotient to an integer: truncation towards zero.
TruncDiv(a, b) == IF a >= 0 THEN a \div b ELSE -((-a) \div b)

Packet(id, idx, dts, pts, dur) ==
    [id |-> id, stream_index |-> idx, dts |-> dts, pts |-> pts,
     duration |-> dur, size |-> 1]

\* The zero-length packet popEncodedData synthesises for codecs with delay.
FlushPacket(id, idx) ==
    [id |-> id, stream_index |-> idx, dts |-> NoPts, pts |-> NoPts,
     duration |-> 0, size |-> 0]

StreamParams(num, den, start, rate, delay) ==
    [time_base_num |-> num, time_base_den |-> den, start_time |-> start,
     sample_rate |-> rate, cap_delay |-> delay]

IdsOf(q) == {q[i].id : i \in 1..Len(q)}

UnrefTwice(bag, p) == bag (+) SetToBag({p.id}) (+) SetToBag({p.id})

Unref(bag, p) == bag (+) SetToBag({p.id})

isPassive(s) == FALSE

SelectedStreams == {m_connectedAudioStream, m_connectedVideoStream} \ {None}

NullPacket == [id |-> None, stream_index |-> None, dts |-> NoPts, pts |-> NoPts,
               duration |-> 0, size |-> 0]

\* ------------------------------------------------------------------------
\* History of TestStream's queue (observation only): every insertion gets a
\* stamp from a global event clock, every pop of a queued packet is logged
\* with the kind and stamp of the insertion that put the packet there.
\* ------------------------------------------------------------------------
\* The history is kept only where it is observed (on).
NoHist == [on |-> FALSE, clock |-> 0, ins |-> <<>>, pops |-> <<>>]

RecordIns(h, p, kind) ==
    IF ~h.on THEN h
    ELSE [h EXCEPT !.clock = @ + 1,
                   !.ins = (p.id :> [kind |-> kind, stamp |-> h.clock + 1]) @@ @]

RecordPop(h, p) ==
    IF ~h.on THEN h
    ELSE [h EXCEPT !.clock = @ + 1,
                   !.pops = Append(@, [id |-> p.id, kind |-> h.ins[p.id].kind,
                                        ins |-> h.ins[p.id].stamp,
                                        pop |-> h.clock + 1])]

\* ------------------------------------------------------------------------
\* Stream: the packet queue (Stream.cpp)
\* ------------------------------------------------------------------------
\* The operations of one stream act on a "world" w: the stream's queue q,
\* the Demuxer's container / EOF flag / pending lists, the bag of released
\* packets, the number of requestMoreData calls, the queue operations of the
\* stream the Demuxer invoked during them, the next packet identity and the
\* queue history.
World(s) ==
    [q |-> m_packetList[s], container |-> container, eof |-> m_eofReached,
     pending |-> m_pendingDataForActiveStreams, unrefs |-> unrefs,
     requests |-> 0, reentered |-> <<>>, nextId |-> nextId, hist |-> hist]

pushEncodedDataFront(q, p) == <<p>> \o q

pushEncodedData(q, p) == Append(q, p)

prependEncodedData(q, p) == <<p>> \o q

PushW(w, p) ==
    [w EXCEPT !.q = pushEncodedData(@, p), !.hist = RecordIns(@, p, "push")]

PrependW(w, p) ==
    [w EXCEPT !.q = prependEncodedData(@, p), !.hist = RecordIns(@, p, "prepend")]

\* ------------------------------------------------------------------------
\* Demuxer (Demuxer.hpp declares these; behaviour from the specification)
\* ------------------------------------------------------------------------
\* distributePacket: 1 = handed to the requesting stream, 2 = queued for a
\* different selected stream, 3 = released.
canUsePacketAlways(p, s) == TRUE

\* Stream::canUsePacket
canUsePacket(p, s) == p.stream_index = s

distributePacket(p, s, selected) ==
    IF canUsePacket(p, s) THEN 1
    ELSE IF p.stream_index \in selected THEN 2
    ELSE 3

\* The Demuxer hands a packet to the requesting stream: it pushes it into
\* the stream's queue.
DeliverW(w, p) ==
    [PushW(w, p) EXCEPT !.reentered = Append(@, "pushEncodedData")]

\* readPacket + distributePacket until a packet for s is obtained or EOF.
RECURSIVE ReadUntilPacketFor(_, _, _)
ReadUntilPacketFor(w, s, selected) ==
    IF w.container = <<>>
    THEN [w EXCEPT !.eof = TRUE]
    ELSE LET p == Head(w.container)
             w2 == [w EXCEPT !.container = Tail(@)]
             d == distributePacket(p, s, selected)
         IN  IF d = 1 THEN DeliverW(w2, p)
             ELSE IF d = 2
             THEN ReadUntilPacketFor(
                      [w2 EXCEPT !.pending[p.stream_index] = Append(@, p)],
                      s, selected)
             ELSE ReadUntilPacketFor(
                      [w2 EXCEPT !.unrefs = Unref(@, p)], s, selected)

requestMoreDataReadingFirst(w, s, selected) ==
    ReadUntilPacketFor([w EXCEPT !.requests = @ + 1], s, selected)

requestMoreData(w, s, selected) ==
    LET w1 == [w EXCEPT !.requests = @ + 1]
    IN  IF w1.pending[s] # <<>>
        THEN DeliverW([w1 EXCEPT !.pending[s] = Tail(@)], Head(w1.pending[s]))
        ELSE ReadUntilPacketFor(w1, s, selected)

\* ------------------------------------------------------------------------
\* Stream::popEncodedData
\* ------------------------------------------------------------------------
popEncodedDataNoRequest(w, s, selected) ==
    IF w.q # <<>>
    THEN [w |-> [w EXCEPT !.q = Tail(@), !.hist = RecordPop(@, Head(w.q))],
          packet |-> Head(w.q)]
    ELSE [w |-> w, packet |-> NullPacket]

popEncodedDataAlwaysFlushing(w, s, selected) ==
    LET w1 == IF w.q = <<>> /\ ~isPassive(s)
              THEN requestMoreData(w, s, selected)
              ELSE w
    IN  IF w1.q # <<>>
        THEN [w |-> [w1 EXCEPT !.q = Tail(@),
                               !.hist = RecordPop(@, Head(w1.q))],
              packet |-> Head(w1.q)]
        ELSE [w |-> [w1 EXCEPT !.nextId = @ + 1],
              packet |-> FlushPacket(w1.nextId, s)]

popEncodedData(w, s, selected) ==
    LET w1 == IF w.q = <<>> /\ ~isPassive(s)
              THEN requestMoreData(w, s, selected)
              ELSE w
    IN  IF w1.q # <<>>
        THEN [w |-> [w1 EXCEPT !.q = Tail(@),
                               !.hist = RecordPop(@, Head(w1.q))],
              packet |-> Head(w1.q)]
        ELSE IF m_stream[s].cap_delay
        THEN [w |-> [w1 EXCEPT !.nextId = @ + 1],
              packet |-> FlushPacket(w1.nextId, s)]
        ELSE [w |-> w1, packet |-> NullPacket]

\* Stream::flushBuffers: the drain loop; every queued packet is unref'ed.
RECURSIVE DrainPacketList(_, _)
DrainPacketList(q, bag) ==
    IF q = <<>> THEN bag ELSE DrainPacketList(Tail(q), Unref(bag, Head(q)))

StreamFlushBuffersKeepLast(q, status, bag) ==
    [q |-> IF q = <<>> THEN q ELSE <<q[Len(q)]>>,
     unrefs |-> IF q = <<>> THEN bag
                ELSE DrainPacketList(SubSeq(q, 1, Len(q) - 1), bag),
     log |-> IF status = "Playing" THEN <<"warning: flushed while playing">>
             ELSE <<>>]

StreamFlushBuffers(q, status, bag) ==
    [q |-> <<>>,
     unrefs |-> DrainPacketList(q, bag),
     log |-> IF status = "Playing" THEN <<"warning: flushed while playing">>
             ELSE <<>>]

\* Write a world back into the state of stream s.
ApplyWorld(s, w) ==
    /\ m_packetList' = [m_packetList EXCEPT ![s] = w.q]
    /\ container' = w.container
    /\ m_eofReached' = w.eof
    /\ m_pendingDataForActiveStreams' = w.pending
    /\ unrefs' = w.unrefs
    /\ nextId' = w.nextId
    /\ hist' = w.hist

\* The sink thread's onGetData call: where it is (pc), data.sampleCount, the
\* packet being decoded, failed decode attempts for it, and what the call
\* has done so far (requestMoreData calls, pops that found the queue empty,
\* whether the queue was empty on entry, whether the Demuxer was at end of
\* file with nothing queued or pending for the stream on entry, the packets
\* popped, the last frame handled (samples in the chunk before it, samples
\* produced, samples discarded from it), the result).
NoFrame == [before |-> 0, count |-> 0, discarded |-> 0]

IdleSink ==
    [pc |-> "idle", sampleCount |-> 0, packet |-> NullPacket, attempts |-> 0,
     requests |-> 0, emptyPops |-> 0, emptyAtEntry |-> FALSE,
     exhaustedAtEntry |-> FALSE, popped |-> {},
     frame |-> NoFrame, result |-> "none"]

\* The history of a queue that was filled by pushes, front first.
InitHist(q0) ==
    [on |-> TRUE, clock |-> Len(q0),
     ins |-> [id \in IdsOf(q0) |->
                [kind |-> "push",
                 stamp |-> CHOOSE i \in 1..Len(q0) : q0[i].id = id]],
     pops |-> <<>>]

\* State shared by every initial state: construction of the streams
\* (Stream::Stream, AudioStream::AudioStream, initResampler); q0 is what
\* the Demuxer has already pushed into TestStream's queue and extra0 the
\* extraAudioTime a previous seek left.
InitStreams(params, q0, extra0, h0) ==
    /\ m_packetList = [s \in Streams |-> IF s = TestStream THEN q0 ELSE <<>>]
    /\ m_status = [s \in Streams |-> "Stopped"]
    /\ m_extraAudioTime = [s \in AudioStreams |->
                              IF s = TestStream THEN extra0 ELSE 0]
    /\ sfStatus = [s \in AudioStreams |-> "Stopped"]
    /\ m_stream = [s \in Streams |-> params]
    /\ m_maxDstNbSamples = [s \in AudioStreams |-> InitialDstNbSamples]
    /\ m_dstNbSamples = [s \in AudioStreams |-> InitialDstNbSamples]
    /\ m_eofReached = FALSE
    /\ m_pendingDataForActiveStreams = [s \in Streams |-> <<>>]
    /\ unrefs = EmptyBag
    /\ call = [op |-> "init"]
    /\ sink = IdleSink
    /\ hist = h0
    /\ m_readerMutex = [owner |-> NoThread, depth |-> 0]
    /\ m_synchronized = [owner |-> NoThread, depth |-> 0]
    /\ running = [t \in Threads |-> IdleThread]

\* ========================================================================
\* SpecQueue: the queue operations of one stream
\* ========================================================================
InitQueue ==
    \E delay \in BOOLEAN, k \in 0..MaxSource :
        /\ InitStreams(StreamParams(1, 1000, NoPts, 500, delay), <<>>, 0,
                       InitHist(<<>>))
        /\ container = [i \in 1..k |-> Packet(i, TestStream, i, i, 1)]
        /\ nextId = k + 1
        /\ m_connectedAudioStream = TestStream
        /\ m_connectedVideoStream = None
        /\ observers = {TestStream}

PushEncodedData(s, limit, lastId) ==
    /\ Len(m_packetList[s]) < limit
    /\ hist.clock < MaxOps
    /\ nextId <= lastId
    /\ LET p == Packet(nextId, s, nextId, nextId, 1)
           w == PushW([World(s) EXCEPT !.nextId = @ + 1], p)
       IN  /\ ApplyWorld(s, w)
           /\ call' = [op |-> "pushEncodedData", stream |-> s, packet |-> p]
    /\ UNCHANGED <<statusVars, m_extraAudioTime, m_stream, resamplerVars,
                   selectVars, sink>>
    /\ UNCHANGED lockVars

PrependEncodedData ==
    /\ Len(m_packetList[TestStream]) < MaxQueue
    /\ hist.clock < MaxOps
    /\ nextId <= MaxPacketId
    /\ LET p == Packet(nextId, TestStream, nextId, nextId, 1)
           w == PrependW([World(TestStream) EXCEPT !.nextId = @ + 1], p)
       IN  /\ ApplyWorld(TestStream, w)
           /\ call' = [op |-> "prependEncodedData", packet |-> p]
    /\ UNCHANGED <<statusVars, m_extraAudioTime, m_stream, resamplerVars,
                   selectVars, sink>>
    /\ UNCHANGED lockVars

PopEncodedData ==
    /\ hist.clock < MaxOps
    /\ nextId <= MaxPacketId
    /\ LET r == popEncodedData(World(TestStream), TestStream, SelectedStreams)
       IN  /\ ApplyWorld(TestStream, r.w)
           /\ call' = [op |-> "popEncodedData", packet |-> r.packet,
                       requests |-> r.w.requests,
                       reentered |-> r.w.reentered,
                       wasEmpty |-> m_packetList[TestStream] = <<>>,
                       front |-> IF m_packetList[TestStream] = <<>>
                                 THEN NullPacket
                                 ELSE Head(m_packetList[TestStream])]
    /\ UNCHANGED <<statusVars, m_extraAudioTime, m_stream, resamplerVars,
                   selectVars, sink>>
    /\ UNCHANGED lockVars

NextQueue ==
    \/ PushEncodedData(TestStream, MaxQueue, MaxPacketId)
    \/ PrependEncodedData
    \/ PopEncodedData

SpecQueue == InitQueue /\ [][NextQueue]_vars

\* C1: packets leave the queue in the order they were pushed, except that a
\* prepended packet leaves before every packet that was in the queue when it
\* was prepended.  For two logged pops a (earlier) and b (later) that were in
\* the queue together: a was prepended, after b if b was prepended too, or
\* both were pushed and a was pushed first.
PopOrderFollowsPushOrder ==
    \A i, j \in 1..Len(hist.pops) :
        LET a == hist.pops[i]
            b == hist.pops[j]
        IN  (i < j /\ b.ins < a.pop) =>
                \/ a.kind = "prepend" /\ (b.kind = "prepend" => a.ins > b.ins)
                \/ a.kind = "push" /\ b.kind = "push" /\ a.ins < b.ins

\* Two pushed packets and a later prepended one were queued together and all
\* three were popped: the prepended one first.
PopOrderWitness ==
    \E i, j, k \in 1..Len(hist.pops) :
        /\ i < j /\ j < k
        /\ hist.pops[i].kind = "prepend"
        /\ hist.pops[j].kind = "push" /\ hist.pops[k].kind = "push"
        /\ hist.pops[k].ins < hist.pops[i].ins
        /\ hist.pops[j].ins < hist.pops[i].ins


\* ========================================================================
\* Positions and durations (Stream.cpp)
\* ========================================================================
\* Ticks of the time base as whole microseconds: the value of
\* static_cast<Int64>(seconds * 1000000) for seconds = t * num / den.
\* The fraction is reduced first so that the product stays small.
MicrosOfTicks(t, st) ==
    LET g == GCD(MicrosPerSecond, st.time_base_den)
    IN  TruncDiv(t * st.time_base_num * (MicrosPerSecond \div g),
                 st.time_base_den \div g)

\* The timestamp computeEncodedPosition picks for a packet.
packetTimestamp(p, st) ==
    IF p.dts # NoPts THEN p.dts
    ELSE IF p.pts # NoPts
    THEN p.pts - (IF st.start_time # NoPts THEN st.start_time ELSE 0)
    ELSE BadTimestamp

\* Position without the conversion to Int32 milliseconds.
encodedPositionExact(p, st) == MicrosOfTicks(packetTimestamp(p, st), st)

\* position = sf::milliseconds(1000 * av_q2d(seconds)): the double is
\* converted to Int32 milliseconds, the result is that many milliseconds.
encodedPosition(p, st) ==
    1000 * TruncDiv(1000 * packetTimestamp(p, st) * st.time_base_num,
                    st.time_base_den)

\* Stream::computeEncodedPosition
computeEncodedPosition(w, s, selected) ==
    LET w1 == IF w.q = <<>> /\ ~isPassive(s)
              THEN requestMoreData(w, s, selected)
              ELSE w
    IN  IF w1.q # <<>>
        THEN [w |-> w1, ok |-> TRUE,
              position |-> encodedPosition(Head(w1.q), m_stream[s])]
        ELSE [w |-> w1, ok |-> FALSE, position |-> 0]

\* Stream::packetDuration for packet->duration != 0.
packetDuration(p, st) == MicrosOfTicks(p.duration, st)

\* ========================================================================
\* AudioStream::fastForward
\* ========================================================================
SeekStart(w, extra) ==
    [w |-> w, extra |-> extra, log |-> <<>>, result |-> "running",
     discarded |-> <<>>, kept |-> NullPacket]

\* One pass through the body of the do/while loop of fastForward; the
\* result stays "running" when the loop condition holds after it.
fastForwardStep(st, target, s, selected) ==
    LET c == computeEncodedPosition(st.w, s, selected)
    IN  IF ~c.ok
        THEN [st EXCEPT !.w = c.w, !.result = "false",
                        !.log = Append(@, "warning: failed fast forwarding")]
        ELSE
        LET r == popEncodedData(c.w, s, selected)
            packet == r.packet
            currentPosition == c.position
        IN  IF packet = NullPacket
            THEN [st EXCEPT !.w = r.w, !.result = "false",
                            !.log = Append(@, "error: end of stream")]
            ELSE
            LET pktDuration == packetDuration(packet, m_stream[s])
                again == currentPosition + pktDuration <= target
                after == IF again THEN "running" ELSE "true"
            IN  IF currentPosition > target
                THEN [st EXCEPT
                        !.w = PrependW(r.w, packet),
                        !.kept = packet,
                        !.extra = 0,
                        !.log = IF currentPosition - target > OvershootTolerance
                                THEN Append(@, "warning: inaccuracy")
                                ELSE @,
                        !.result = after]
                ELSE IF currentPosition + pktDuration > target
                THEN LET extra == target - currentPosition
                     IN  [st EXCEPT
                            !.w = PrependW(r.w, packet),
                            !.kept = packet,
                            !.extra = extra,
                            !.result = IF ~(extra > 0) \/ ~(extra <= pktDuration)
                                       THEN "fatal" ELSE after]
                ELSE [st EXCEPT
                        !.w = [r.w EXCEPT !.unrefs = Unref(@, packet)],
                        !.discarded = Append(@, packet),
                        !.result = after]

RECURSIVE fastForwardLoop(_, _, _, _)
fastForwardLoop(st, target, s, selected) ==
    LET st1 == fastForwardStep(st, target, s, selected)
    IN  IF st1.result = "running"
        THEN fastForwardLoop(st1, target, s, selected)
        ELSE st1

fastForward(w, extra, target, s, selected) ==
    fastForwardLoop(SeekStart(w, extra), target, s, selected)

\* ========================================================================
\* AudioStream::flushBuffers
\* ========================================================================
\* The outcome for audio stream s: fatal when the sink is playing, otherwise
\* the sink is stopped, extraAudioTime cleared and the queue drained.
audioFlushBuffersNoCheck(s) ==
    LET f == StreamFlushBuffers(m_packetList[s], m_status[s], unrefs)
    IN  [result |-> "ok", sf |-> "Stopped", extra |-> 0,
         q |-> f.q, unrefs |-> f.unrefs, log |-> f.log]

audioFlushBuffers(s) ==
    IF sfStatus[s] = "Playing"
    THEN [result |-> "fatal", sf |-> sfStatus[s],
          extra |-> m_extraAudioTime[s], q |-> m_packetList[s],
          unrefs |-> unrefs, log |-> <<>>]
    ELSE LET f == StreamFlushBuffers(m_packetList[s], m_status[s], unrefs)
         IN  [result |-> "ok", sf |-> "Stopped", extra |-> 0,
              q |-> f.q, unrefs |-> f.unrefs, log |-> f.log]

FlushBuffers(s) ==
    /\ sink.pc = "idle"
    /\ LET f == audioFlushBuffers(s)
       IN  /\ m_packetList' = [m_packetList EXCEPT ![s] = f.q]
           /\ m_extraAudioTime' = [m_extraAudioTime EXCEPT ![s] = f.extra]
           /\ sfStatus' = [sfStatus EXCEPT ![s] = f.sf]
           /\ unrefs' = f.unrefs
           /\ call' = [op |-> "flushBuffers", stream |-> s,
                       result |-> f.result, log |-> f.log,
                       preQueue |-> m_packetList[s],
                       preExtra |-> m_extraAudioTime[s],
                       preStatus |-> m_status[s],
                       preSfStatus |-> sfStatus[s],
                       preUnrefs |-> unrefs]
    /\ UNCHANGED <<m_status, m_stream, resamplerVars, demuxVars, selectVars,
                   nextId, sink, hist>>
    /\ UNCHANGED lockVars

\* ========================================================================
\* Transport callbacks of AudioStream and the sink
\* ========================================================================
\* The sink (sf::SoundStream) is outside the sources.  After a command it
\* reaches the commanded status at some tick of the polling clock (arrive)
\* or never; the clock counts whole seconds, every sleep of the polling
\* loop lasts one tick and the CHECK after the loop reads the clock again,
\* possibly one tick later (late).
WaitCeiling == 5               \* sf::seconds(5)
NeverArrives == WaitCeiling + 2
Arrivals == {0, 1, WaitCeiling - 1, WaitCeiling, NeverArrives}
Lateness == {0, 1}

\* while (stream.getStatus() != expectedStatus && elapsed < 5 s) sleep:
\* the tick at which the loop is left.
RECURSIVE pollStatusLate(_, _, _, _)
pollStatusLate(elapsed, old, expected, arrive) ==
    LET status == IF arrive <= elapsed THEN expected ELSE old
    IN  IF status # expected /\ elapsed < WaitCeiling + 1
        THEN pollStatusLate(elapsed + 1, old, expected, arrive)
        ELSE elapsed

RECURSIVE pollStatus(_, _, _, _)
pollStatus(elapsed, old, expected, arrive) ==
    LET status == IF arrive <= elapsed THEN expected ELSE old
    IN  IF status # expected /\ elapsed < WaitCeiling
        THEN pollStatus(elapsed + 1, old, expected, arrive)
        ELSE elapsed

\* waitForStatusUpdate: the loop, then CHECK(elapsed < 5 s).
waitForStatusUpdateNoCheck(old, expected, arrive, late) ==
    LET exitAt == pollStatus(0, old, expected, arrive)
        checkAt == exitAt + late
    IN  [result |-> "ok",
         sf |-> IF old = expected \/ arrive <= checkAt THEN expected ELSE old,
         polls |-> exitAt, elapsed |-> checkAt, waited |-> TRUE]

waitForStatusUpdate(old, expected, arrive, late) ==
    LET exitAt == pollStatus(0, old, expected, arrive)
        checkAt == exitAt + late
    IN  [result |-> IF checkAt < WaitCeiling THEN "ok" ELSE "fatal",
         sf |-> IF old = expected \/ arrive <= checkAt THEN expected ELSE old,
         polls |-> exitAt, elapsed |-> checkAt, waited |-> TRUE]

\* The wait of willPlay for a stopped stream: the loop polls the playing
\* offset, which moves once the sink plays (arrive), and the CHECK reads the
\* offset again, not the clock.
waitForPlayingOffset(old, arrive, late) ==
    LET exitAt == pollStatus(0, "Silent", "Sounding", arrive)
        checkAt == exitAt + late
    IN  [result |-> IF arrive <= checkAt THEN "ok" ELSE "fatal",
         sf |-> IF arrive <= checkAt THEN "Playing" ELSE old,
         polls |-> exitAt, elapsed |-> checkAt, waited |-> TRUE]

NoWait(sf) ==
    [result |-> "ok", sf |-> sf, polls |-> 0, elapsed |-> 0, waited |-> FALSE]

\* Stream::setStatus and the callbacks of Stream that use it.
setStatus(st, s, status) == [st EXCEPT ![s] = status]

streamDidPlay(st, s) == setStatus(st, s, "Playing")

streamDidPause(st, s) == setStatus(st, s, "Paused")

streamDidStopWhenPaused(st, s) ==
    IF st[s] = "Paused" THEN setStatus(st, s, "Stopped") ELSE st

streamDidStop(st, s) == setStatus(st, s, "Stopped")

\* What a transport callback leaves in call.
TransportCall(op, s, expected, w) ==
    [op |-> op, stream |-> s, result |-> w.result, expected |-> expected,
     waited |-> w.waited, polls |-> w.polls, elapsed |-> w.elapsed,
     reached |-> w.sf = expected, preStatus |-> m_status[s], preSfStatus |-> sfStatus[s]]

\* AudioStream::willPlay: play(), then the wait for the playing offset (the
\* stream is Stopped) or for the sink's status.
WillPlay(s) ==
    /\ s \in observers
    /\ \E arrive \in Arrivals, late \in Lateness :
        LET w == IF m_status[s] = "Stopped"
                 THEN waitForPlayingOffset(sfStatus[s], arrive, late)
                 ELSE waitForStatusUpdate(sfStatus[s], "Playing", arrive, late)
        IN  /\ sfStatus' = [sfStatus EXCEPT ![s] = w.sf]
            /\ call' = TransportCall("willPlay", s, "Playing", w)
    /\ UNCHANGED <<m_packetList, m_status, m_extraAudioTime, m_stream,
                   resamplerVars, demuxVars, selectVars, nextId, unrefs,
                   sink, hist>>
    /\ UNCHANGED lockVars

\* AudioStream::didPlay: CHECK(sink is Playing), then Stream::didPlay.
DidPlay(s) ==
    /\ s \in observers
    /\ LET ok == sfStatus[s] = "Playing"
           w == [NoWait(sfStatus[s]) EXCEPT
                    !.result = IF ok THEN "ok" ELSE "fatal"]
       IN  /\ m_status' = IF ok THEN streamDidPlay(m_status, s) ELSE m_status
           /\ call' = TransportCall("didPlay", s, "Playing", w)
    /\ UNCHANGED <<m_packetList, m_extraAudioTime, sfStatus, m_stream,
                   resamplerVars, demuxVars, selectVars, nextId, unrefs,
                   sink, hist>>
    /\ UNCHANGED lockVars

\* AudioStream::didPause: pause() and the wait only when the sink is
\* Playing, then Stream::didPause.
DidPause(s) ==
    /\ s \in observers
    /\ \E arrive \in Arrivals, late \in Lateness :
        LET w == IF sfStatus[s] = "Playing"
                 THEN waitForStatusUpdate(sfStatus[s], "Paused", arrive, late)
                 ELSE NoWait(sfStatus[s])
        IN  /\ sfStatus' = [sfStatus EXCEPT ![s] = w.sf]
            /\ m_status' = IF w.result = "ok" THEN streamDidPause(m_status, s)
                           ELSE m_status
            /\ call' = TransportCall("didPause", s, "Paused", w)
    /\ UNCHANGED <<m_packetList, m_extraAudioTime, m_stream, resamplerVars,
                   demuxVars, selectVars, nextId, unrefs, sink, hist>>
    /\ UNCHANGED lockVars

\* AudioStream::didStop: stop(), the wait, then Stream::didStop.
DidStop(s) ==
    /\ s \in observers
    /\ \E arrive \in Arrivals, late \in Lateness :
        LET w == waitForStatusUpdate(sfStatus[s], "Stopped", arrive, late)
        IN  /\ sfStatus' = [sfStatus EXCEPT ![s] = w.sf]
            /\ m_status' = IF w.result = "ok" THEN streamDidStop(m_status, s)
                           ELSE m_status
            /\ call' = TransportCall("didStop", s, "Stopped", w)
    /\ UNCHANGED <<m_packetList, m_extraAudioTime, m_stream, resamplerVars,
                   demuxVars, selectVars, nextId, unrefs, sink, hist>>
    /\ UNCHANGED lockVars

\* AudioStream::update copies the sink's status into the stream's status.
Update(s) ==
    /\ m_status[s] # sfStatus[s]
    /\ m_status' = setStatus(m_status, s, sfStatus[s])
    /\ call' = [op |-> "update", stream |-> s, result |-> "ok",
                preStatus |-> m_status[s]]
    /\ UNCHANGED <<m_packetList, m_extraAudioTime, sfStatus, m_stream,
                   resamplerVars, demuxVars, selectVars, nextId, unrefs,
                   sink, hist>>
    /\ UNCHANGED lockVars

\* The sink's thread ends by itself once onGetData has reported "no more
\* data": the sink's status becomes Stopped without any transport callback.
SinkStreamEnds(s) ==
    /\ sfStatus[s] = "Playing"
    /\ sfStatus' = [sfStatus EXCEPT ![s] = "Stopped"]
    /\ call' = [op |-> "sinkStreamEnds", stream |-> s, result |-> "ok"]
    /\ UNCHANGED <<m_packetList, m_status, m_extraAudioTime, m_stream,
                   resamplerVars, demuxVars, selectVars, nextId, unrefs,
                   sink, hist>>
    /\ UNCHANGED lockVars

\* ========================================================================
\* SpecSeek: seeking, flushing and the transport callbacks of one stream
\* ========================================================================
\* A seek configuration: time base num/den, n contiguous packets of dur
\* ticks starting at tick first, timestamps carried by dts, by pts (with or
\* without a stream start time) or by neither, the first queued packets in
\* the stream's queue and the others still in the container.
SeekModes == {"dts", "pts", "pts-start", "none"}

SmallSeekConfigs ==
    {[num |-> 1, den |-> tb[1], dur |-> tb[2], first |-> 0, n |-> n,
      mode |-> m, queued |-> IF all THEN n ELSE 1] :
        tb \in {<<1000, 2>>, <<2000, 3>>}, n \in 1..MaxSeekPackets,
        m \in SeekModes, all \in BOOLEAN}

\* 48 kHz, 20 ms packets (960 ticks of 1/48000 s).
ScenarioPackets == 77

ScenarioConfig ==
    [num |-> 1, den |-> 48000, dur |-> 960, first |-> 0,
     n |-> ScenarioPackets, mode |-> "dts", queued |-> ScenarioPackets]

SeekConfigs == SmallSeekConfigs \cup {ScenarioConfig}

StartTimeOf(cfg) == IF cfg.mode = "pts-start" THEN 1 ELSE NoPts

ConfigPacket(cfg, i) ==
    LET tick == cfg.first + (i - 1) * cfg.dur
    IN  Packet(i, TestStream,
               IF cfg.mode = "dts" THEN tick ELSE NoPts,
               IF cfg.mode = "dts" THEN tick + 1
               ELSE IF cfg.mode = "pts" THEN tick
               ELSE IF cfg.mode = "pts-start" THEN tick + 1
               ELSE NoPts,
               cfg.dur)

\* Seek targets in microseconds: every quarter of a millisecond.
MaxTargetSteps == 34

SmallSeekTargets == {k * 250 : k \in 0..MaxTargetSteps}

ScenarioTargets == {1500000, 1510000}

InitSeek ==
    \E cfg \in SeekConfigs :
        /\ InitStreams(StreamParams(cfg.num, cfg.den, StartTimeOf(cfg), 500,
                                    FALSE),
                       [i \in 1..cfg.queued |-> ConfigPacket(cfg, i)], 0,
                       NoHist)
        /\ container = [i \in 1..(cfg.n - cfg.queued) |->
                            ConfigPacket(cfg, cfg.queued + i)]
        /\ nextId = cfg.n + 1
        /\ m_connectedAudioStream = TestStream
        /\ m_connectedVideoStream = None
        /\ observers = {TestStream}

\* The targets offered to a state: those of the configuration it started in.
IsScenario == m_stream[TestStream].time_base_den = ScenarioConfig.den

\* Stream::didSeek: fast-forward to the Timer's offset unless it is zero.
DidSeek(s, targets) ==
    /\ sink.pc = "idle"
    /\ s \in observers
    /\ \E target \in targets :
        LET r == IF target # 0
                 THEN fastForward(World(s), m_extraAudioTime[s], target, s,
                                  SelectedStreams)
                 ELSE [SeekStart(World(s), m_extraAudioTime[s])
                           EXCEPT !.result = "true"]
        IN  /\ ApplyWorld(s, r.w)
            /\ m_extraAudioTime' = [m_extraAudioTime EXCEPT ![s] = r.extra]
            /\ call' = [op |-> "didSeek", stream |-> s, target |-> target,
                        result |-> r.result, log |-> r.log,
                        discarded |-> r.discarded, kept |-> r.kept,
                        requests |-> r.w.requests,
                        preQueue |-> m_packetList[s],
                        preSource |-> container,
                        preExtra |-> m_extraAudioTime[s]]
    /\ UNCHANGED <<statusVars, m_stream, resamplerVars, selectVars, sink>>
    /\ UNCHANGED lockVars

NextSeek ==
    DidSeek(TestStream, IF IsScenario THEN ScenarioTargets
                        ELSE SmallSeekTargets)

SpecSeek == InitSeek /\ [][NextSeek]_vars

\* ========================================================================
\* SpecFlush: flushing one audio stream between seeks and transport
\* callbacks
\* ========================================================================
MaxFlushPackets == 2
FlushTargets == {1000, 2000, 3000}

InitFlush ==
    \E n \in 0..MaxFlushPackets :
        /\ InitStreams(StreamParams(1, 1000, NoPts, 500, FALSE),
                       [i \in 1..n |-> Packet(i, TestStream, 2 * (i - 1),
                                              2 * (i - 1), 2)],
                       0, NoHist)
        /\ container = [i \in 1..MaxFlushPackets |->
                            Packet(n + i, TestStream, 2 * (n + i - 1),
                                   2 * (n + i - 1), 2)]
        /\ nextId = n + MaxFlushPackets + 1
        /\ m_connectedAudioStream = TestStream
        /\ m_connectedVideoStream = None
        /\ observers = {TestStream}

NextFlush ==
    \/ DidSeek(TestStream, FlushTargets)
    \/ FlushBuffers(TestStream)
    \/ WillPlay(TestStream)
    \/ DidPlay(TestStream)
    \/ DidPause(TestStream)
    \/ DidStop(TestStream)
    \/ Update(TestStream)
    \/ SinkStreamEnds(TestStream)

SpecFlush == InitFlush /\ [][NextFlush]_vars

\* ------------------------------------------------------------------------
\* Properties of seeking
\* ------------------------------------------------------------------------
\* The packets a seek could examine: the queue and what the Demuxer can
\* still deliver, in order.
SeekPackets == call.preQueue \o call.preSource

HasTimestamp(p) == p.dts # NoPts \/ p.pts # NoPts

\* Start and duration of a packet in microseconds, without rounding.
StartOf(p) == encodedPositionExact(p, m_stream[TestStream])
DurationOf(p) == packetDuration(p, m_stream[TestStream])

FastForwardCalled == call.op = "didSeek" /\ call.target # 0

\* C2: a seek to a target that is exactly the start of a queued packet
\* returns true, has discarded every packet that starts before the target,
\* leaves extraAudioTime at 0 and that packet at the front of the queue.
SeekOnBoundarySucceeds ==
    FastForwardCalled =>
        \A i \in 1..Len(SeekPackets) :
            LET p == SeekPackets[i]
            IN  (HasTimestamp(p) /\ StartOf(p) = call.target) =>
                    /\ call.result = "true"
                    /\ m_extraAudioTime[TestStream] = 0
                    /\ m_packetList[TestStream] # <<>>
                    /\ Head(m_packetList[TestStream]) = p
                    /\ \A j \in 1..Len(SeekPackets) :
                          StartOf(SeekPackets[j]) < call.target =>
                              \E k \in 1..Len(call.discarded) :
                                  call.discarded[k] = SeekPackets[j]

\* C3: after a seek to a target strictly inside a queued packet [S, S+D)
\* has returned, that packet is at the front of the queue and
\* extraAudioTime = target - S, with 0 < extraAudioTime <= D.
SeekInsidePacketLeavesOffset ==
    (FastForwardCalled /\ call.result # "fatal") =>
        \A i \in 1..Len(SeekPackets) :
            LET p == SeekPackets[i]
            IN  (/\ HasTimestamp(p)
                 /\ StartOf(p) < call.target
                 /\ call.target < StartOf(p) + DurationOf(p)) =>
                    /\ m_packetList[TestStream] # <<>>
                    /\ Head(m_packetList[TestStream]) = p
                    /\ m_extraAudioTime[TestStream] = call.target - StartOf(p)
                    /\ m_extraAudioTime[TestStream] > 0
                    /\ m_extraAudioTime[TestStream] <= DurationOf(p)

\* C4: for contiguous packets of equal duration D starting at time 0 and a
\* target inside the queue, a seek discards exactly floor(target / D)
\* packets: those with start + duration <= target and no other.
SeekDiscardsFloorOfTargetByDuration ==
    (/\ FastForwardCalled
     /\ SeekPackets # <<>>
     /\ HasTimestamp(SeekPackets[1])
     /\ StartOf(SeekPackets[1]) = 0
     /\ call.target < Len(SeekPackets) * DurationOf(SeekPackets[1])) =>
        /\ Len(call.discarded) = call.target \div DurationOf(SeekPackets[1])
        /\ \A i \in 1..Len(SeekPackets) :
              LET p == SeekPackets[i]
              IN  (StartOf(p) + DurationOf(p) <= call.target)
                    <=> (\E k \in 1..Len(call.discarded) : call.discarded[k] = p)

\* ------------------------------------------------------------------------
\* Properties of flushing
\* ------------------------------------------------------------------------
FlushCalled == call.op = "flushBuffers"

\* C5: when flushBuffers has returned, the queue is empty, extraAudioTime is
\* zero and every packet that was queued has been released exactly once;
\* no other packet has been released by the call.
FlushReleasesEveryPacketOnce ==
    (FlushCalled /\ call.result = "ok") =>
        /\ m_packetList[call.stream] = <<>>
        /\ m_extraAudioTime[call.stream] = 0
        /\ \A id \in 1..(nextId - 1) :
              CopiesIn(id, unrefs) =
                  IF id \in IdsOf(call.preQueue) THEN 1
                  ELSE CopiesIn(id, call.preUnrefs)

\* A flush of a queue of two packets with a pending extraAudioTime returned.
FlushWitness ==
    /\ FlushCalled /\ call.result = "ok"
    /\ Len(call.preQueue) >= 2
    /\ call.preExtra > 0

\* C6 as stated: a flush called while the stream's status and the sink's
\* status are Playing logs the anomaly and completes with an empty queue
\* and extraAudioTime zero.
FlushWhilePlayingCompletes ==
    (FlushCalled /\ call.preStatus = "Playing" /\ call.preSfStatus = "Playing") =>
        /\ call.result = "ok"
        /\ call.log # <<>>
        /\ m_packetList[call.stream] = <<>>
        /\ m_extraAudioTime[call.stream] = 0

\* C6 amended: a flush called while the sink is Playing ends in a fatal
\* error and changes nothing; a flush called while only the stream's own
\* status is Playing logs the anomaly and completes with an empty queue and
\* extraAudioTime zero.
FlushWhilePlayingIsFatalForSink ==
    FlushCalled =>
        /\ call.preSfStatus = "Playing" =>
              /\ call.result = "fatal"
              /\ call.log = <<>>
              /\ m_packetList[call.stream] = call.preQueue
              /\ m_extraAudioTime[call.stream] = call.preExtra
              /\ unrefs = call.preUnrefs
        /\ (call.preStatus = "Playing" /\ call.preSfStatus # "Playing") =>
              /\ call.result = "ok"
              /\ call.log = <<"warning: flushed while playing">>
              /\ m_packetList[call.stream] = <<>>
              /\ m_extraAudioTime[call.stream] = 0

\* A flush was attempted with stream and sink Playing, packets queued and an
\* extraAudioTime pending.
FlushWhilePlayingWitness ==
    /\ FlushCalled
    /\ call.preStatus = "Playing" /\ call.preSfStatus = "Playing"
    /\ call.preQueue # <<>>
    /\ call.preExtra > 0

\* ========================================================================
\* AudioStream: resampling and sample/time conversions
\* ========================================================================
CeilDiv(a, b) == (a + b - 1) \div b

Max(a, b) == IF a > b THEN a ELSE b

\* resampleFrame up to the reallocation: the required capacity is
\* av_rescale_rnd(delay + nb_samples, dst_rate, src_rate, AV_ROUND_UP) with
\* src_rate = dst_rate = frame->sample_rate.
resampleFrameShrinking(maxDst, nb_samples, delay, rate) ==
    LET dst == CeilDiv((delay + nb_samples) * rate, rate)
    IN  [dst |-> dst, max |-> dst]

resampleFrame(maxDst, nb_samples, delay, rate) ==
    LET dst == CeilDiv((delay + nb_samples) * rate, rate)
    IN  [dst |-> dst, max |-> IF dst > maxDst THEN dst ELSE maxDst]

timeToSamplesUnaligned(time, rate) ==
    TruncDiv(rate * StereoChannelCount * time, MicrosPerSecond)

timeToSamples(time, rate) ==
    LET samplesPerSecond == rate * StereoChannelCount
        samples == TruncDiv(samplesPerSecond * time, MicrosPerSecond)
    IN  IF samples % StereoChannelCount # 0
        THEN samples - (samples % StereoChannelCount)
        ELSE samples

samplesToTimeOfAllChannels(nbSamples, rate) ==
    TruncDiv(MicrosPerSecond * nbSamples, rate)

samplesToTime(nbSamples, rate) ==
    LET samplesPerChannel == TruncDiv(nbSamples, StereoChannelCount)
    IN  TruncDiv(MicrosPerSecond * samplesPerChannel, rate)

\* The fixed capacity of m_samplesBuffer, in samples.
samplesBufferCapacity(rate) == StereoChannelCount * rate * BufferSeconds

\* The "Going to overflow" CHECK of onGetData fails.
chunkWouldOverflowNever(total, rate) == FALSE

chunkWouldOverflow(total, rate) ==
    ~(samplesToTime(total, rate) < BufferSeconds * MicrosPerSecond)

keptExtraAudioTime(extra) == extra

\* "Extra audio time is too small to discard audio samples":
\* m_extraAudioTime = sf::Time::Zero
clearedExtraAudioTime(extra) == 0

\* onGetData for one produced frame of samplesCount samples: the CHECKs, the
\* discard of extraAudioTime and the copy into the chunk.
handleFrame(sampleCount, extra, samplesCount, rate) ==
    IF ~(samplesCount > 0) \/ chunkWouldOverflow(sampleCount + samplesCount, rate)
    THEN [fatal |-> TRUE, sampleCount |-> sampleCount, extra |-> extra,
          discarded |-> 0]
    ELSE IF extra > 0
    THEN LET wanted == timeToSamples(extra, rate)
             samplesToDiscard == IF wanted > samplesCount THEN samplesCount
                                 ELSE wanted
         IN  IF samplesToDiscard < StereoChannelCount /\ samplesCount > 0
             THEN [fatal |-> FALSE, sampleCount |-> sampleCount + samplesCount,
                   extra |-> clearedExtraAudioTime(extra), discarded |-> 0]
             ELSE IF ~(TruncDiv(samplesToDiscard,
                                Max(samplesCount, samplesToDiscard))
                       - TruncDiv(extra, samplesToTime(samplesCount, rate)) <= 0)
             THEN [fatal |-> TRUE, sampleCount |-> sampleCount,
                   extra |-> extra, discarded |-> 0]
             ELSE [fatal |-> FALSE,
                   sampleCount |-> sampleCount + (samplesCount - samplesToDiscard),
                   extra |-> extra - samplesToTime(samplesToDiscard, rate),
                   discarded |-> samplesToDiscard]
    ELSE [fatal |-> FALSE, sampleCount |-> sampleCount + samplesCount,
          extra |-> extra, discarded |-> 0]

\* ========================================================================
\* AudioStream::onGetData, step by step on the sink's thread
\* ========================================================================
\* Soft end of file for stream s: the Demuxer has reached the end of the
\* container and nothing is queued or pending for the stream.
Exhausted(s) ==
    /\ m_eofReached
    /\ m_packetList[s] = <<>>
    /\ m_pendingDataForActiveStreams[s] = <<>>

OnGetDataBeginSettingStatus(s) ==
    /\ sink.pc = "idle"
    /\ nextId <= MaxPacketId
    /\ sink' = [IdleSink EXCEPT !.pc = "loop",
                                !.emptyAtEntry = (m_packetList[s] = <<>>),
                                !.exhaustedAtEntry = Exhausted(s)]
    /\ call' = [op |-> "onGetData", stream |-> s]
    /\ m_status' = setStatus(m_status, s, "Playing")
    /\ UNCHANGED <<m_packetList, sfStatus, m_extraAudioTime, m_stream,
                   resamplerVars, demuxVars, selectVars, nextId, unrefs, hist>>
    /\ UNCHANGED lockVars

OnGetDataBegin(s) ==
    /\ sink.pc = "idle"
    /\ nextId <= MaxPacketId
    /\ sink' = [IdleSink EXCEPT !.pc = "loop",
                                !.emptyAtEntry = (m_packetList[s] = <<>>),
                                !.exhaustedAtEntry = Exhausted(s)]
    /\ call' = [op |-> "onGetData", stream |-> s]
    /\ UNCHANGED <<m_packetList, statusVars, m_extraAudioTime, m_stream,
                   resamplerVars, demuxVars, selectVars, nextId, unrefs, hist>>
    /\ UNCHANGED lockVars

\* The loop condition: the chunk is not yet one second long and
\* popEncodedData yields a packet.
OnGetDataPop(s) ==
    /\ sink.pc = "loop"
    /\ IF sink.sampleCount < StereoChannelCount * m_stream[s].sample_rate
       THEN LET r == popEncodedData(World(s), s, SelectedStreams)
                counted == [sink EXCEPT
                              !.requests = @ + r.w.requests,
                              !.emptyPops = @ + (IF m_packetList[s] = <<>>
                                                 THEN 1 ELSE 0),
                              !.frame = NoFrame]
            IN  /\ ApplyWorld(s, r.w)
                /\ sink' = IF r.packet = NullPacket
                           THEN [counted EXCEPT !.pc = "idle",
                                                !.packet = NullPacket,
                                                !.result = "false"]
                           ELSE [counted EXCEPT !.pc = "decode",
                                                !.packet = r.packet,
                                                !.popped = @ \cup {r.packet.id},
                                                !.attempts = 0]
       ELSE /\ sink' = [sink EXCEPT !.pc = "idle", !.frame = NoFrame,
                                    !.result = IF sink.packet # NullPacket
                                               THEN "true" ELSE "false"]
            /\ UNCHANGED <<m_packetList, demuxVars, nextId, unrefs, hist>>
    /\ UNCHANGED <<statusVars, m_extraAudioTime, m_stream, resamplerVars,
                   selectVars, call>>
    /\ UNCHANGED lockVars

FrameSizes == {300, 1024, 1100}
ResamplerDelays == {0, 16}

\* One decodePacket call and what follows it inside the do/while loop.
\* Without a frame (send or receive failed) the same packet is decoded
\* again; with a frame it is resampled, checked, trimmed and copied, and the
\* packet is released.
OnGetDataDecode(s, sizes, delays) ==
    /\ sink.pc = "decode"
    /\ \E gotFrame \in BOOLEAN :
        IF ~gotFrame
        THEN /\ sink.attempts < MaxDecodeAttempts
             /\ sink' = [sink EXCEPT !.attempts = @ + 1]
             /\ UNCHANGED <<m_extraAudioTime, resamplerVars, unrefs>>
        ELSE \E nb \in sizes, delay \in delays,
                full \in BOOLEAN, failed \in BOOLEAN :
            LET rate == m_stream[s].sample_rate
                rs == resampleFrame(m_maxDstNbSamples[s], nb, delay, rate)
                converted == IF failed THEN 0
                             ELSE IF full THEN rs.dst ELSE nb
                samplesCount == converted * StereoChannelCount
                h == handleFrame(sink.sampleCount, m_extraAudioTime[s],
                                 samplesCount, rate)
            IN  /\ m_dstNbSamples' = [m_dstNbSamples EXCEPT ![s] = rs.dst]
                /\ m_maxDstNbSamples' = [m_maxDstNbSamples EXCEPT ![s] = rs.max]
                /\ m_extraAudioTime' = [m_extraAudioTime EXCEPT ![s] = h.extra]
                /\ sink' = [sink EXCEPT
                              !.pc = IF h.fatal THEN "fatal" ELSE "loop",
                              !.sampleCount = h.sampleCount,
                              !.frame = [before |-> sink.sampleCount,
                                         count |-> samplesCount,
                                         discarded |-> h.discarded]]
                /\ unrefs' = IF h.fatal THEN unrefs
                             ELSE Unref(unrefs, sink.packet)
    /\ UNCHANGED <<m_packetList, statusVars, m_stream, demuxVars, selectVars,
                   nextId, call, hist>>
    /\ UNCHANGED lockVars

\* ========================================================================
\* SpecChunk: chunk requests of the sink thread on one audio stream
\* ========================================================================
ChunkRate == 1000
ChunkExtraTimes == {0, 400, 1500, 700000}

ChunkPacket(i) == Packet(i, TestStream, 1000 * (i - 1), 1000 * (i - 1), 1000)

InitChunk ==
    \E delay \in BOOLEAN, n \in 0..MaxChunkPackets, k \in 0..MaxChunkPackets,
       extra \in ChunkExtraTimes :
        /\ k <= n
        /\ extra > 0 => k > 0
        /\ InitStreams(StreamParams(1, 1000, NoPts, ChunkRate, delay),
                       [i \in 1..k |-> ChunkPacket(i)], extra, NoHist)
        /\ container = [i \in 1..(n - k) |-> ChunkPacket(k + i)]
        /\ nextId = n + 1
        /\ m_connectedAudioStream = TestStream
        /\ m_connectedVideoStream = None
        /\ observers = {TestStream}

NextChunk ==
    \/ OnGetDataBegin(TestStream)
    \/ OnGetDataPop(TestStream)
    \/ OnGetDataDecode(TestStream, FrameSizes, ResamplerDelays)

SpecChunk == InitChunk /\ [][NextChunk]_vars

\* ------------------------------------------------------------------------
\* Properties of chunk requests
\* ------------------------------------------------------------------------
ChunkCapacity == samplesBufferCapacity(m_stream[TestStream].sample_rate)

FrameHandled == sink.frame.count > 0

\* C7: the samples accumulated in the chunk never exceed the capacity of the
\* two-second buffer, and a frame whose samples would bring the total to the
\* capacity ends the call in a fatal error with nothing copied.
ChunkStaysBelowCapacity ==
    /\ sink.sampleCount <= ChunkCapacity
    /\ (FrameHandled /\ sink.frame.before + sink.frame.count >= ChunkCapacity) =>
            /\ sink.pc = "fatal"
            /\ sink.sampleCount = sink.frame.before

\* A frame that would have filled the buffer was refused.
ChunkOverflowWitness ==
    /\ FrameHandled
    /\ sink.frame.before > 0
    /\ sink.frame.before + sink.frame.count >= ChunkCapacity
    /\ sink.pc = "fatal"

OnGetDataReturned == sink.pc = "idle" /\ sink.result # "none"

\* C9 as stated: a chunk request that found the queue empty has issued
\* exactly one requestMoreData call when it returns.
ChunkRequestIssuesExactlyOneRequest ==
    (OnGetDataReturned /\ sink.emptyAtEntry) => sink.requests = 1

\* C9 amended: a chunk request issues one requestMoreData call for every
\* popEncodedData call that finds the queue empty, hence at least one when
\* the queue was empty on entry.
ChunkRequestIssuesOneRequestPerEmptyPop ==
    /\ sink.requests = sink.emptyPops
    /\ (OnGetDataReturned /\ sink.emptyAtEntry) => sink.requests >= 1

\* A chunk request that found the queue empty returned after the Demuxer had
\* delivered packets: two requests were made.
ChunkRequestWitness ==
    /\ OnGetDataReturned /\ sink.emptyAtEntry
    /\ sink.requests = 2
    /\ sink.sampleCount > 0

\* C10: the resampler's output capacity starts at 1024 samples per channel,
\* never shrinks, and after a frame is the larger of the previous capacity
\* and the count the frame required.
ResamplerCapacityStep ==
    \A s \in AudioStreams :
        /\ m_maxDstNbSamples'[s] >= m_maxDstNbSamples[s]
        /\ m_dstNbSamples'[s] # m_dstNbSamples[s] =>
              m_maxDstNbSamples'[s] = Max(m_maxDstNbSamples[s], m_dstNbSamples'[s])

ResamplerCapacityMonotonic ==
    /\ \A s \in AudioStreams : m_maxDstNbSamples[s] = InitialDstNbSamples
    /\ [][ResamplerCapacityStep]_vars

\* The capacity has grown and a later, smaller frame has left it as it was.
ResamplerWitness ==
    /\ m_maxDstNbSamples[TestStream] > InitialDstNbSamples
    /\ m_dstNbSamples[TestStream] < InitialDstNbSamples

\* ========================================================================
\* Selecting streams (Demuxer::selectAudioStream / selectVideoStream) and
\* the registration with the Timer (Stream::connect / disconnect)
\* ========================================================================
\* Timer::addObserver / removeObserver on the set of registered streams.
disconnectNothing(obs, s) == obs

connect(obs, s) == obs \cup {s}

disconnect(obs, s) == obs \ {s}

\* Stream::flushBuffers for a stream that is not an AudioStream.
videoFlushBuffers(s) ==
    LET f == StreamFlushBuffers(m_packetList[s], m_status[s], unrefs)
    IN  [result |-> "ok", q |-> f.q, unrefs |-> f.unrefs, log |-> f.log]

\* The steps of a selection: the previous stream of the kind, if any, is
\* disconnected and flushed, then the new one, if any, is connected.  Each
\* step is recorded with the Timer's observers after it.
selectSteps(prev, new, flushResult) ==
    LET obs1 == IF prev # None THEN disconnect(observers, prev) ELSE observers
        fatal == prev # None /\ flushResult = "fatal"
        obs2 == IF ~fatal /\ new # None THEN connect(obs1, new) ELSE obs1
    IN  [observers |-> obs2,
         fatal |-> fatal,
         steps |->
            (IF prev # None
             THEN <<[step |-> "disconnect", stream |-> prev, observers |-> obs1],
                    [step |-> "flushBuffers", stream |-> prev, observers |-> obs1]>>
             ELSE <<>>)
            \o (IF ~fatal /\ new # None
                THEN <<[step |-> "connect", stream |-> new, observers |-> obs2]>>
                ELSE <<>>)]

SelectAudioStream(new) ==
    /\ sink.pc = "idle"
    /\ LET prev == m_connectedAudioStream
           f == IF prev # None THEN audioFlushBuffers(prev)
                ELSE [result |-> "ok"]
           sel == selectSteps(prev, new, f.result)
       IN  /\ observers' = sel.observers
           /\ m_connectedAudioStream' = IF sel.fatal THEN prev ELSE new
           /\ IF prev # None
              THEN /\ m_packetList' = [m_packetList EXCEPT ![prev] = f.q]
                   /\ m_extraAudioTime' = [m_extraAudioTime EXCEPT ![prev] = f.extra]
                   /\ sfStatus' = [sfStatus EXCEPT ![prev] = f.sf]
                   /\ unrefs' = f.unrefs
              ELSE UNCHANGED <<m_packetList, m_extraAudioTime, sfStatus, unrefs>>
           /\ call' = [op |-> "selectAudioStream", stream |-> new,
                       previous |-> prev,
                       result |-> IF sel.fatal THEN "fatal" ELSE "ok",
                       steps |-> sel.steps]
    /\ UNCHANGED <<m_status, m_stream, resamplerVars, demuxVars,
                   m_connectedVideoStream, nextId, sink, hist>>
    /\ UNCHANGED lockVars

SelectVideoStream(new) ==
    /\ sink.pc = "idle"
    /\ LET prev == m_connectedVideoStream
           f == IF prev # None THEN videoFlushBuffers(prev)
                ELSE [result |-> "ok"]
           sel == selectSteps(prev, new, f.result)
       IN  /\ observers' = sel.observers
           /\ m_connectedVideoStream' = new
           /\ IF prev # None
              THEN /\ m_packetList' = [m_packetList EXCEPT ![prev] = f.q]
                   /\ unrefs' = f.unrefs
              ELSE UNCHANGED <<m_packetList, unrefs>>
           /\ call' = [op |-> "selectVideoStream", stream |-> new,
                       previous |-> prev, result |-> "ok",
                       steps |-> sel.steps]
    /\ UNCHANGED <<m_status, m_extraAudioTime, sfStatus, m_stream,
                   resamplerVars, demuxVars, m_connectedAudioStream, nextId,
                   sink, hist>>
    /\ UNCHANGED lockVars

\* ========================================================================
\* SpecSelect: stream selection with fed queues and a playing sink
\* ========================================================================
MaxSelectQueue == 1
MaxSelectPackets == 3

InitSelect ==
    /\ InitStreams(StreamParams(1, 1000, NoPts, 500, FALSE), <<>>, 0, NoHist)
    /\ container = <<>>
    /\ nextId = 1
    /\ m_connectedAudioStream = None
    /\ m_connectedVideoStream = None
    /\ observers = {}

NextSelect ==
    \/ \E new \in AudioStreams \cup {None} : SelectAudioStream(new)
    \/ \E new \in VideoStreams \cup {None} : SelectVideoStream(new)
    \/ \E s \in Streams : PushEncodedData(s, MaxSelectQueue, MaxSelectPackets)
    \/ \E s \in AudioStreams : WillPlay(s)
    \/ \E s \in AudioStreams : DidPlay(s)
    \/ \E s \in AudioStreams : DidStop(s)

SpecSelect == InitSelect /\ [][NextSelect]_vars

SelectCalled == call.op \in {"selectAudioStream", "selectVideoStream"}

AtMostOnePerKind(obs) ==
    /\ Cardinality(obs \cap AudioStreams) <= 1
    /\ Cardinality(obs \cap VideoStreams) <= 1

\* C8: at most one audio stream and at most one video stream is registered
\* with the Timer, also between the steps of a selection; a selection that
\* replaces an audio stream disconnects and flushes the previous stream
\* before it connects the new one; selecting no audio stream leaves no audio
\* stream registered.
OneStreamPerKindConnected ==
    /\ AtMostOnePerKind(observers)
    /\ SelectCalled =>
          \A i \in 1..Len(call.steps) : AtMostOnePerKind(call.steps[i].observers)
    /\ (call.op = "selectAudioStream" /\ call.previous # None
            /\ call.stream # None /\ call.result = "ok") =>
          /\ Len(call.steps) = 3
          /\ call.steps[1].step = "disconnect"
          /\ call.steps[1].stream = call.previous
          /\ call.previous \notin call.steps[1].observers
          /\ call.steps[2].step = "flushBuffers"
          /\ call.steps[2].stream = call.previous
          /\ call.previous # call.stream => m_packetList[call.previous] = <<>>
          /\ call.steps[3].step = "connect"
          /\ call.steps[3].stream = call.stream
          /\ observers \cap AudioStreams = {call.stream}
    /\ (call.op = "selectAudioStream" /\ call.stream = None) =>
          observers \cap AudioStreams = {}

\* An audio stream with a queued packet was replaced by the other one.
SelectWitness ==
    /\ call.op = "selectAudioStream" /\ call.result = "ok"
    /\ call.previous # None /\ call.stream # None
    /\ call.previous # call.stream
    /\ call.stream \in observers
    /\ Cardinality(observers) = 2
    /\ BagCardinality(unrefs) > 0

\* ========================================================================
\* SpecPlayback: one selected audio stream and one selected video stream
\* under the Timer's callbacks, seeks, flushes and the sink's chunk requests
\* ========================================================================
MaxPlaybackPackets == 2
PlaybackTargets == {1000, 3000}
PlaybackVideoStream == 2
PlaybackOtherStream == 1
PlaybackFrameSizes == {1024}
PlaybackDelays == {0}

\* What the container holds after the audio packets: a packet of the
\* selected video stream, one of an audio stream that is not selected, and a
\* last audio packet.
PlaybackContainer(from, n) ==
    [i \in 1..(n - from + 1) |-> ChunkPacket(from + i - 1)]
    \o <<Packet(n + 1, PlaybackVideoStream, 0, 0, 1000),
         Packet(n + 2, PlaybackOtherStream, 0, 0, 1000),
         ChunkPacket(n + 3)>>

InitPlayback ==
    \E delay \in BOOLEAN, n \in 0..MaxPlaybackPackets,
       k \in 0..MaxPlaybackPackets :
        /\ k <= n
        /\ InitStreams(StreamParams(1, 1000, NoPts, ChunkRate, delay),
                       [i \in 1..k |-> ChunkPacket(i)], 0, NoHist)
        /\ container = PlaybackContainer(k + 1, n)
        /\ nextId = n + 4
        /\ m_connectedAudioStream = TestStream
        /\ m_connectedVideoStream = PlaybackVideoStream
        /\ observers = {TestStream, PlaybackVideoStream}

\* The callbacks of the control thread run between the chunk requests.
NextPlayback ==
    \/ sink.pc = "idle" /\ WillPlay(TestStream)
    \/ sink.pc = "idle" /\ DidPlay(TestStream)
    \/ sink.pc = "idle" /\ DidPause(TestStream)
    \/ sink.pc = "idle" /\ DidStop(TestStream)
    \/ sink.pc = "idle" /\ Update(TestStream)
    \/ sink.pc = "idle" /\ SinkStreamEnds(TestStream)
    \/ DidSeek(TestStream, PlaybackTargets)
    \/ FlushBuffers(TestStream)
    \/ OnGetDataBegin(TestStream)
    \/ OnGetDataPop(TestStream)
    \/ OnGetDataDecode(TestStream, PlaybackFrameSizes, PlaybackDelays)

SpecPlayback == InitPlayback /\ [][NextPlayback]_vars

\* ------------------------------------------------------------------------
\* Properties of the status and of the transport callbacks
\* ------------------------------------------------------------------------
TimerCallbacks == {"willPlay", "didPlay", "didPause", "didStop", "didSeek"}
TransportCallbacks == {"willPlay", "didPlay", "didPause", "didStop"}

TransportReturned == call.op \in TransportCallbacks /\ call.result = "ok"

\* C11 as stated: a stream's status changes only inside the Timer callbacks
\* willPlay / didPlay / didPause / didStop / didSeek.
StatusChangesOnlyInTimerCallbacks ==
    [][m_status' # m_status => call'.op \in TimerCallbacks]_vars

\* C11 amended: a stream's status changes only inside didPlay, didPause,
\* didStop and AudioStream::update, which copies the sink's status; willPlay,
\* didSeek, onGetData, flushBuffers and fastForward never change it.
StatusChangesOnlyInCallbacksAndUpdate ==
    [][m_status' # m_status =>
          call'.op \in {"didPlay", "didPause", "didStop", "update"}]_vars

\* The sink ended by itself while the stream was Playing and update made
\* the stream Stopped.
StatusUpdateWitness ==
    /\ call.op = "update"
    /\ call.preStatus = "Playing"
    /\ m_status[call.stream] = "Stopped"

\* C12 as stated: under the Timer callbacks the status follows only the
\* edges Stopped->Playing, Playing->Paused, Paused->Playing, Paused->Stopped.
StatusEdges ==
    {<<"Stopped", "Playing">>, <<"Playing", "Paused">>,
     <<"Paused", "Playing">>, <<"Paused", "Stopped">>}

StatusFollowsStateDiagram ==
    [][(m_status'[TestStream] # m_status[TestStream]
            /\ call'.op \in TimerCallbacks) =>
          <<m_status[TestStream], m_status'[TestStream]>> \in StatusEdges]_vars

\* C12 amended: a completed didPlay / didPause / didStop leaves the status
\* Playing / Paused / Stopped from every previous status (so Playing->Stopped
\* and Stopped->Paused are followed too), a failed one and willPlay leave it
\* as it was, and didSeek never changes it.
CallbackSetsItsStatus ==
    /\ [](call.op \in {"didPlay", "didPause", "didStop"} =>
            m_status[call.stream] = IF call.result = "ok" THEN call.expected
                                    ELSE call.preStatus)
    /\ [](call.op = "willPlay" => m_status[call.stream] = call.preStatus)
    /\ [][call'.op = "didSeek" => m_status' = m_status]_vars

\* didPause completed on a stream that was Stopped, didStop on one that was
\* Playing.
StoppedToPausedWitness ==
    /\ call.op = "didPause" /\ call.result = "ok"
    /\ call.preStatus = "Stopped"
    /\ m_status[call.stream] = "Paused"

\* C13 as stated: when a transport callback returns normally the sink's
\* status is the one expected for it, from every prior sink status.
SinkMatchesAfterCallback ==
    TransportReturned => sfStatus[call.stream] = call.expected

\* C13 amended: when a transport callback returns normally the sink's
\* status is Playing after willPlay and didPlay, Stopped after didStop, and
\* after didPause it is Paused if the sink was Playing when didPause was
\* called and otherwise what it was (Paused or Stopped).
SinkMatchesUnlessPauseSkipped ==
    TransportReturned =>
        sfStatus[call.stream] =
            IF call.op = "didPause" /\ call.preSfStatus # "Playing"
            THEN call.preSfStatus
            ELSE call.expected

\* didPause paused a playing sink that answered after a few polls.
SinkPausedWitness ==
    /\ TransportReturned /\ call.op = "didPause"
    /\ call.preSfStatus = "Playing"
    /\ call.waited /\ call.polls > 0
    /\ sfStatus[call.stream] = "Paused"

\* C14: a transport wait polls no longer than the ceiling; when the sink has
\* not reached the expected status the callback ends in a fatal error, and
\* it never returns normally, before or after the ceiling, with the sink in
\* another status.
TransportWaitIsBounded ==
    (call.op \in TransportCallbacks /\ call.waited) =>
        /\ call.polls <= WaitCeiling
        /\ ~call.reached => call.result = "fatal"
        /\ call.result = "ok" => sfStatus[call.stream] = call.expected

\* The sink never answered: the wait polled up to the ceiling and failed.
TransportTimeoutWitness ==
    /\ call.op \in TransportCallbacks /\ call.waited
    /\ ~call.reached
    /\ call.polls = WaitCeiling
    /\ call.result = "fatal"

\* C15: when didStop has completed, every stream's queue is empty and the
\* sink's status is Stopped.
StopLeavesQueuesEmpty ==
    (call.op = "didStop" /\ call.result = "ok") =>
        /\ \A s \in Streams : m_packetList[s] = <<>>
        /\ sfStatus[call.stream] = "Stopped"

\* ------------------------------------------------------------------------
\* Properties of chunk requests at the end of the stream and after a failed
\* decode
\* ------------------------------------------------------------------------
\* C18: a chunk request made once the Demuxer is at end of file and nothing
\* is queued or pending for the stream reports "no more data", for codecs
\* with and without delay.
ChunkRequestAtEndReportsNoMoreData ==
    (OnGetDataReturned /\ sink.exhaustedAtEntry) => sink.result = "false"

\* C19: a packet whose decode failed is not submitted again: after the
\* failed decodePacket call the packet has been released and the loop is
\* back at popping the next packet.
DecodeFailureSkipsPacket ==
    sink.attempts > 0 =>
        /\ sink.pc \in {"loop", "idle"}
        /\ CopiesIn(sink.packet.id, unrefs) = 1

\* ------------------------------------------------------------------------
\* Ownership of packets
\* ------------------------------------------------------------------------
RECURSIVE Occurrences(_, _)
Occurrences(id, q) ==
    IF q = <<>> THEN 0
    ELSE (IF Head(q).id = id THEN 1 ELSE 0) + Occurrences(id, Tail(q))

RECURSIVE SumOver(_, _, _)
SumOver(id, qs, S) ==
    IF S = {} THEN 0
    ELSE LET s == CHOOSE x \in S : TRUE
         IN  Occurrences(id, qs[s]) + SumOver(id, qs, S \ {s})

\* The packet the chunk request is decoding (or held when it failed).
HeldBySink(id) ==
    IF sink.pc \in {"decode", "fatal"} /\ sink.packet.id = id THEN 1 ELSE 0

\* The owners of a packet: the container that has not delivered it yet, the
\* Demuxer's pending lists, the streams' queues and the chunk request.
Owners(id) ==
    Occurrences(id, container)
        + SumOver(id, m_pendingDataForActiveStreams, Streams)
        + SumOver(id, m_packetList, Streams)
        + HeldBySink(id)

PopCalled == call.op = "popEncodedData"

\* C17 as stated: during a requestMoreData call made from inside
\* popEncodedData the Demuxer invokes no queue operation of that stream.
DemuxerNeverReentersQueue ==
    PopCalled => call.reentered = <<>>

\* C17 amended: a popEncodedData call that finds the queue empty makes one
\* requestMoreData call, during which the Demuxer invokes pushEncodedData of
\* that same stream to deliver what it obtained and no other queue operation
\* of it (no prepend, pop or flush); the packet the pop then returns is the
\* one delivered.  A pop that finds a packet makes no request.
DemuxerReentersQueueOnlyToPush ==
    PopCalled =>
        /\ call.requests = (IF call.wasEmpty THEN 1 ELSE 0)
        /\ \A i \in 1..Len(call.reentered) :
              call.reentered[i] = "pushEncodedData"
        /\ ~call.wasEmpty => call.reentered = <<>>
        /\ (call.wasEmpty /\ call.packet.size > 0) => call.reentered # <<>>

\* A pop found the queue empty and returned the packet the Demuxer pushed
\* during the request.
DemuxerReentryWitness ==
    /\ PopCalled /\ call.wasEmpty
    /\ call.requests = 1
    /\ call.reentered = <<"pushEncodedData">>
    /\ call.packet.size > 0

\* ========================================================================
\* SpecLock: the queue operations of one stream, access by access, on the
\* control thread and on the sink's thread
\* ========================================================================
\* m_readerMutex and the Demuxer's m_synchronized are sf::Mutex objects,
\* which the thread that owns them may lock again.  An operation is a sequence of instructions: lock, unlock, one
\* access to m_packetList, or a jump that depends on the emptiness the
\* thread has read last.
MaxLockQueue == 2
MaxLockPackets == 3
LowWaterMark == 10             \* needsMoreData: m_packetList.size() < 10

LockInstr == [k |-> "lock", what |-> "m_readerMutex", skip |-> 0]
UnlockInstr == [k |-> "unlock", what |-> "m_readerMutex", skip |-> 0]
DemuxerLockInstr == [k |-> "lock", what |-> "m_synchronized", skip |-> 0]
DemuxerUnlockInstr == [k |-> "unlock", what |-> "m_synchronized", skip |-> 0]
AccessInstr(what) == [k |-> "access", what |-> what, skip |-> 0]
UnlessEmptyInstr(n) == [k |-> "unlessEmpty", what |-> "", skip |-> n]
UnlessFilledInstr(n) == [k |-> "unlessFilled", what |-> "", skip |-> n]

\* Demuxer::requestMoreData and Demuxer::feedStream as seen by the stream:
\* under the Demuxer's lock, pushEncodedData of the packet obtained, if any.
RequestProgram ==
    <<DemuxerLockInstr, LockInstr, AccessInstr("deliver"), UnlockInstr,
      DemuxerUnlockInstr>>

Program(op) ==
    CASE op = "pushEncodedData" ->
            <<LockInstr, AccessInstr("push"), UnlockInstr>>
      [] op = "prependEncodedData" ->
            <<LockInstr, AccessInstr("prepend"), UnlockInstr>>
      [] op = "popEncodedData" ->
            <<LockInstr, AccessInstr("empty"),
              UnlessEmptyInstr(Len(RequestProgram))>>
            \o RequestProgram
            \o <<AccessInstr("take"), UnlockInstr>>
      [] op = "flushBuffers" ->
            <<LockInstr, AccessInstr("drain"), UnlockInstr>>
      [] op = "feedStream" -> RequestProgram
      [] op = "needsMoreData" -> <<AccessInstr("size")>>
      [] op = "hasPackets" -> <<AccessInstr("empty")>>
      [] op = "computeEncodedPosition" ->
            <<AccessInstr("empty"), UnlessEmptyInstr(Len(RequestProgram))>>
            \o RequestProgram
            \o <<AccessInstr("empty"), UnlessFilledInstr(3),
                 LockInstr, AccessInstr("front"), UnlockInstr>>

\* The control thread feeds (Demuxer::update calls feedStream), seeks and
\* flushes; the sink's thread pops from onGetData.
OperationsOf(t) ==
    IF t = "sink" THEN {"popEncodedData"}
    ELSE {"pushEncodedData", "prependEncodedData", "popEncodedData",
          "flushBuffers", "needsMoreData", "hasPackets",
          "computeEncodedPosition", "feedStream"}

Instr(t) == Program(running[t].op)[running[t].pc]

AtInstr(t, k) == running[t].pc > 0 /\ Instr(t).k = k

\* The program counter after the instruction at pc, skip instructions
\* further on for a jump taken; 0 once the operation has returned.
Advance(t, skip) ==
    LET next == running[t].pc + 1 + skip
    IN  IF next > Len(Program(running[t].op)) THEN 0 ELSE next

InitLock ==
    \E k \in 0..MaxLockQueue, n \in 0..1 :
        /\ InitStreams(StreamParams(1, 1000, NoPts, 500, FALSE),
                       [i \in 1..k |-> Packet(i, TestStream, i, i, 1)], 0,
                       NoHist)
        /\ container = [i \in 1..n |->
                            Packet(k + i, TestStream, k + i, k + i, 1)]
        /\ nextId = k + n + 1
        /\ m_connectedAudioStream = TestStream
        /\ m_connectedVideoStream = None
        /\ observers = {TestStream}

otherVars ==
    <<m_status, m_extraAudioTime, sfStatus, m_stream, m_maxDstNbSamples,
      m_dstNbSamples, m_pendingDataForActiveStreams, m_connectedAudioStream,
      m_connectedVideoStream, observers, sink, hist>>

CallOperation(t) ==
    /\ running[t].pc = 0
    /\ \E op \in OperationsOf(t) :
        /\ op \in {"pushEncodedData", "prependEncodedData"} =>
              /\ nextId <= MaxLockPackets
              /\ Len(m_packetList[TestStream]) < MaxLockQueue
        /\ running' = [running EXCEPT ![t] = [IdleThread EXCEPT !.op = op,
                                                                !.pc = 1]]
        /\ call' = [op |-> op, thread |-> t]
    /\ UNCHANGED <<m_packetList, container, m_eofReached, nextId, unrefs,
                   m_readerMutex, m_synchronized, otherVars>>

\* The mutex an instruction names.
MutexOf(what) ==
    IF what = "m_synchronized" THEN m_synchronized ELSE m_readerMutex

SetMutex(what, m) ==
    IF what = "m_synchronized"
    THEN m_synchronized' = m /\ UNCHANGED m_readerMutex
    ELSE m_readerMutex' = m /\ UNCHANGED m_synchronized

\* sf::Lock l(mutex): waits while another thread owns the mutex.
Lock(t) ==
    /\ AtInstr(t, "lock")
    /\ MutexOf(Instr(t).what).owner \in {NoThread, t}
    /\ SetMutex(Instr(t).what,
                [owner |-> t, depth |-> MutexOf(Instr(t).what).depth + 1])
    /\ running' = [running EXCEPT ![t].pc = Advance(t, 0)]
    /\ UNCHANGED <<m_packetList, container, m_eofReached, nextId, unrefs,
                   call, otherVars>>

Unlock(t) ==
    /\ AtInstr(t, "unlock")
    /\ SetMutex(Instr(t).what,
                IF MutexOf(Instr(t).what).depth = 1
                THEN [owner |-> NoThread, depth |-> 0]
                ELSE [MutexOf(Instr(t).what) EXCEPT !.depth = @ - 1])
    /\ running' = [running EXCEPT ![t].pc = Advance(t, 0)]
    /\ UNCHANGED <<m_packetList, container, m_eofReached, nextId, unrefs,
                   call, otherVars>>

\* if (m_packetList.empty() ...) and if (!m_packetList.empty()): the branch
\* on the emptiness read last.
Jump(t) ==
    /\ AtInstr(t, "unlessEmpty") \/ AtInstr(t, "unlessFilled")
    /\ LET taken == IF Instr(t).k = "unlessEmpty" THEN ~running[t].empty
                    ELSE running[t].empty
       IN  running' = [running EXCEPT
                          ![t].pc = Advance(t, IF taken THEN Instr(t).skip
                                               ELSE 0)]
    /\ UNCHANGED <<m_packetList, container, m_eofReached, nextId, unrefs,
                   call, m_readerMutex, m_synchronized, otherVars>>

BeginAccess(t) ==
    /\ AtInstr(t, "access")
    /\ ~running[t].accessing
    /\ running' = [running EXCEPT ![t].accessing = TRUE]
    /\ UNCHANGED <<m_packetList, container, m_eofReached, nextId, unrefs,
                   call, m_readerMutex, m_synchronized, otherVars>>

\* Another thread is inside an access that modifies the list.
RacingWrite(t) ==
    \E u \in Threads \ {t} :
        /\ running[u].accessing
        /\ Instr(u).what \in {"push", "prepend", "deliver", "take", "drain"}

\* The end of an access: its effect on the list.  A read that overlaps a
\* modification by another thread is a data race: it may see anything.
EndAccess(t) ==
    /\ AtInstr(t, "access")
    /\ running[t].accessing
    /\ LET what == Instr(t).what
           q == m_packetList[TestStream]
           p == Packet(nextId, TestStream, nextId, nextId, 1)
           deliver == what = "deliver" /\ container # <<>>
           q1 == CASE what = "push" -> pushEncodedData(q, p)
                   [] what = "prepend" -> prependEncodedData(q, p)
                   [] deliver -> pushEncodedData(q, Head(container))
                   [] what = "take" /\ q # <<>> -> Tail(q)
                   [] what = "drain" -> StreamFlushBuffers(q, "Stopped", unrefs).q
                   [] OTHER -> q
       IN  /\ m_packetList' = [m_packetList EXCEPT ![TestStream] = q1]
           /\ container' = IF deliver THEN Tail(container) ELSE container
           /\ m_eofReached' = (m_eofReached
                                  \/ (what = "deliver" /\ container = <<>>))
           /\ nextId' = IF what \in {"push", "prepend"} THEN nextId + 1
                        ELSE nextId
           /\ unrefs' = CASE what = "take" /\ q # <<>> -> Unref(unrefs, Head(q))
                          [] what = "drain" ->
                                StreamFlushBuffers(q, "Stopped", unrefs).unrefs
                          [] OTHER -> unrefs
           /\ \E seen \in BOOLEAN :
                /\ ~RacingWrite(t) =>
                      seen = (IF what = "size" THEN Len(q) < LowWaterMark
                              ELSE q = <<>>)
                /\ running' = [running EXCEPT
                                  ![t].accessing = FALSE,
                                  ![t].empty = IF what \in {"empty", "size"}
                                               THEN seen ELSE @,
                                  ![t].pc = Advance(t, 0)]
    /\ UNCHANGED <<call, m_readerMutex, m_synchronized, otherVars>>

NextLock ==
    \E t \in Threads :
        \/ CallOperation(t)
        \/ Lock(t)
        \/ Unlock(t)
        \/ Jump(t)
        \/ BeginAccess(t)
        \/ EndAccess(t)

SpecLock == InitLock /\ [][NextLock]_vars

\* C16: every access to the packet queue is made by a thread that holds the
\* queue lock, so the two threads are never inside an access at once.
QueueAccessHoldsLock ==
    /\ \A t \in Threads :
          running[t].accessing => m_readerMutex.owner = t
    /\ ~(running["control"].accessing /\ running["sink"].accessing)

\* ========================================================================
\* SpecDemux: requestMoreData on a container that interleaves the packets
\* of selected and unselected streams
\* ========================================================================
MaxDemuxPackets == 4

InitDemux ==
    \E n \in 0..MaxDemuxPackets :
        \E idx \in [1..n -> Streams] :
            /\ InitStreams(StreamParams(1, 1000, NoPts, ChunkRate, FALSE),
                           <<>>, 0, NoHist)
            /\ container = [i \in 1..n |-> Packet(i, idx[i], i, i, 1)]
            /\ nextId = n + 1
            /\ m_connectedAudioStream = TestStream
            /\ m_connectedVideoStream = PlaybackVideoStream
            /\ observers = {TestStream, PlaybackVideoStream}

\* Demuxer::requestMoreData for a starving selected stream.
RequestMoreData(s) ==
    /\ s \in SelectedStreams
    /\ LET w == requestMoreData(World(s), s, SelectedStreams)
       IN  /\ ApplyWorld(s, w)
           /\ call' = [op |-> "requestMoreData", stream |-> s,
                       selected |-> SelectedStreams,
                       preQueue |-> m_packetList[s],
                       prePending |-> m_pendingDataForActiveStreams,
                       preContainer |-> container]
    /\ UNCHANGED <<statusVars, m_extraAudioTime, m_stream, resamplerVars,
                   selectVars, sink>>
    /\ UNCHANGED lockVars

NextDemux ==
    \/ RequestMoreData(TestStream)
    \/ RequestMoreData(PlaybackVideoStream)

SpecDemux == InitDemux /\ [][NextDemux]_vars

\* ------------------------------------------------------------------------
\* Properties of the Demuxer's distribution
\* ------------------------------------------------------------------------
RequestCalled == call.op = "requestMoreData"

Holds(q, p) == \E i \in 1..Len(q) : q[i] = p

Released(p) == CopiesIn(p.id, unrefs)

PendingHoldsOwnPackets ==
    \A k \in Streams :
        \A i \in 1..Len(m_pendingDataForActiveStreams[k]) :
            m_pendingDataForActiveStreams[k][i].stream_index = k

\* The packets the request read from the container, in order: each was
\* given to distributePacket.
Consumed ==
    SubSeq(call.preContainer, 1, Len(call.preContainer) - Len(container))

\* The request pushed a packet at the back of the stream's queue.
Delivered ==
    /\ Len(m_packetList[call.stream]) = Len(call.preQueue) + 1
    /\ SubSeq(m_packetList[call.stream], 1, Len(call.preQueue)) = call.preQueue

LastOf(q) == q[Len(q)]

RequestServesPendingFirst ==
    RequestCalled =>
        LET s == call.stream
        IN  /\ call.prePending[s] # <<>> =>
                /\ container = call.preContainer
                /\ m_packetList[s] =
                       Append(call.preQueue, Head(call.prePending[s]))
                /\ m_pendingDataForActiveStreams[s] = Tail(call.prePending[s])
            /\ Consumed # <<>> => call.prePending[s] = <<>>
            /\ \/ /\ Delivered
                  /\ LastOf(m_packetList[s]).stream_index = s
                  /\ call.prePending[s] = <<>> =>
                        LastOf(m_packetList[s]) = LastOf(Consumed)
               \/ /\ m_eofReached
                  /\ m_packetList[s] = call.preQueue

\* A request was served from the pending list while the container still
\* held packets, and the packet went behind one already queued.
RequestFromPendingWitness ==
    /\ RequestCalled
    /\ call.prePending[call.stream] # <<>>
    /\ call.preContainer # <<>>
    /\ call.preQueue # <<>>
    /\ Delivered

\* ------------------------------------------------------------------------
\* What popEncodedData returns
\* ------------------------------------------------------------------------
IsFlushPacket(p) == p # NullPacket /\ p.size = 0

\* C23: popEncodedData on an empty queue of a non-passive stream first asks
\* the data source for a refill; if the queue is still empty it returns one
\* synthesised zero-length flush packet when the codec declares delay and no
\* packet otherwise; when the queue is not empty it returns the front packet
\* and never a flush packet.
PopReturnsFrontOrFlushPacket ==
    PopCalled =>
        LET refilled == call.reentered # <<>>
        IN  /\ call.wasEmpty => call.requests = 1
            /\ (call.wasEmpty /\ ~refilled) =>
                  IF m_stream[TestStream].cap_delay
                  THEN /\ IsFlushPacket(call.packet)
                       /\ call.packet = FlushPacket(nextId - 1, TestStream)
                  ELSE call.packet = NullPacket
            /\ (call.wasEmpty /\ refilled) =>
                  /\ call.packet # NullPacket
                  /\ ~IsFlushPacket(call.packet)
            /\ ~call.wasEmpty =>
                  /\ call.packet = call.front
                  /\ ~IsFlushPacket(call.packet)
                  /\ call.requests = 0

\* A pop on an empty queue that the request could not refill returned a
\* flush packet.
PopFlushPacketWitness ==
    /\ PopCalled /\ call.wasEmpty
    /\ call.requests = 1 /\ call.reentered = <<>>
    /\ m_stream[TestStream].cap_delay
    /\ IsFlushPacket(call.packet)

\* ========================================================================
\* SpecDrift: seeks into packets of unequal durations followed by chunk
\* requests that discard the extra audio time
\* ========================================================================
MaxDriftPackets == 3
DriftTargets == {1500, 700000, 1000500}
DriftFrameSizes == {300, 1024}

\* Packets of 1000 ms and of 1 ms in turn, back to back (ticks of 1 ms).
DriftDuration(i) == IF i % 2 = 0 THEN 1 ELSE 1000

DriftStart(i) == ((i - 1) \div 2) * 1001 + (IF i % 2 = 0 THEN 1000 ELSE 0)

DriftPacket(i) ==
    Packet(i, TestStream, DriftStart(i), DriftStart(i), DriftDuration(i))

InitDrift ==
    \E n \in 0..MaxDriftPackets, k \in 0..MaxDriftPackets :
        /\ k <= n
        /\ InitStreams(StreamParams(1, 1000, NoPts, ChunkRate, FALSE),
                       [i \in 1..k |-> DriftPacket(i)], 0, NoHist)
        /\ container = [i \in 1..(n - k) |-> DriftPacket(k + i)]
        /\ nextId = n + 1
        /\ m_connectedAudioStream = TestStream
        /\ m_connectedVideoStream = None
        /\ observers = {TestStream}

NextDrift ==
    \/ DidSeek(TestStream, DriftTargets)
    \/ OnGetDataBegin(TestStream)
    \/ OnGetDataPop(TestStream)
    \/ OnGetDataDecode(TestStream, DriftFrameSizes, PlaybackDelays)

SpecDrift == InitDrift /\ [][NextDrift]_vars

\* ------------------------------------------------------------------------
\* The extra audio time
\* ------------------------------------------------------------------------
ExtraAudioTime == m_extraAudioTime[TestStream]

FrontDuration ==
    packetDuration(Head(m_packetList[TestStream]), m_stream[TestStream])

\* The last operation was a seek that returned true and left extra audio
\* time to discard.
SeekLeftExtra ==
    /\ call.op = "didSeek" /\ call.result = "true"
    /\ ExtraAudioTime > 0

\* C24 as stated: in every reachable state 0 <= extraAudioTime and
\* extraAudioTime does not exceed the duration of the packet at the front
\* of the queue.
ExtraAudioTimeWithinFrontPacket ==
    /\ 0 <= ExtraAudioTime
    /\ m_packetList[TestStream] # <<>> => ExtraAudioTime <= FrontDuration

\* C24 amended: extraAudioTime is never negative; when fastForward returns
\* true leaving extraAudioTime > 0 the packet it put back is at the front of
\* the queue and extraAudioTime does not exceed that packet's duration;
\* handling a decoded frame in onGetData never increases extraAudioTime and
\* never drives it below zero.
ExtraAudioTimeBoundedAtSeek ==
    /\ [](/\ 0 <= ExtraAudioTime
          /\ SeekLeftExtra =>
                /\ m_packetList[TestStream] # <<>>
                /\ Head(m_packetList[TestStream]) = call.kept
                /\ ExtraAudioTime <= FrontDuration)
    /\ [][sink.pc = "decode" =>
             /\ 0 <= m_extraAudioTime'[TestStream]
             /\ m_extraAudioTime'[TestStream] <= ExtraAudioTime]_vars

\* A frame was trimmed, extra audio time is left, and the packet now at the
\* front of the queue is shorter than what is left.
ExtraAudioTimeWitness ==
    /\ sink.frame.discarded > 0
    /\ ExtraAudioTime > 0
    /\ m_packetList[TestStream] # <<>>
    /\ ExtraAudioTime > FrontDuration

\* The sink's thread keeps asking for chunks and every chunk request runs
\* to its end.
SpecDriftFair ==
    /\ SpecDrift
    /\ WF_vars(OnGetDataBegin(TestStream))
    /\ WF_vars(OnGetDataPop(TestStream))
    /\ WF_vars(OnGetDataDecode(TestStream, DriftFrameSizes, PlaybackDelays))

\* onGetData has copied a frame into the chunk in this step.
FrameCopied == sink.pc = "decode" /\ sink'.pc = "loop"

\* No further frame will be handled before new packets or a seek: a CHECK
\* of onGetData failed, or the chunk request found no packet.
NoMoreFrames ==
    \/ sink.pc = "fatal"
    \/ sink.pc = "idle" /\ sink.result = "false"

\* C25: once a seek has left extraAudioTime > 0, each frame onGetData
\* handles discards min(timeToSamples(extraAudioTime), produced samples)
\* samples and lowers extraAudioTime by their time equivalent, or, when
\* fewer than channel-count samples would be discarded, discards nothing
\* and clears extraAudioTime; and as long as frames are handled,
\* extraAudioTime reaches exactly zero.
ExtraAudioTimeDrainsToZero ==
    /\ [][(FrameCopied /\ ExtraAudioTime > 0) =>
            LET rate == m_stream[TestStream].sample_rate
                produced == sink'.frame.count
                wanted == timeToSamples(ExtraAudioTime, rate)
                n == IF wanted > produced THEN produced ELSE wanted
            IN  IF n < StereoChannelCount
                THEN /\ sink'.frame.discarded = 0
                     /\ m_extraAudioTime'[TestStream] = 0
                ELSE /\ sink'.frame.discarded = n
                     /\ m_extraAudioTime'[TestStream] =
                            ExtraAudioTime - samplesToTime(n, rate)
                     /\ m_extraAudioTime'[TestStream] < ExtraAudioTime]_vars
    /\ (ExtraAudioTime > 0) ~> (ExtraAudioTime = 0 \/ NoMoreFrames)

\* Frames were trimmed after a seek and nothing is left to discard.
ExtraAudioTimeDrainedWitness ==
    /\ sink.frame.discarded > 0
    /\ ExtraAudioTime = 0
    /\ sink.pc = "loop"

\* ------------------------------------------------------------------------
\* Seek overshoot
\* ------------------------------------------------------------------------
ToleratedOvershoot == 1000     \* "the different is very small (less than 1ms)"

\* The position fastForward computed for the packet it put back.
KeptPosition == encodedPosition(call.kept, m_stream[TestStream])

\* fastForward found the front packet starting after the target.
SeekOvershot ==
    /\ FastForwardCalled
    /\ call.kept # NullPacket
    /\ KeptPosition > call.target

\* C26: when the front packet starts after the target, fastForward puts the
\* packet back, leaves extraAudioTime at zero and stops; an overshoot of at
\* most 1 ms produces no log entry, a warning is logged only when the
\* overshoot exceeds 1 ms.
SeekOvershootToleratesOneMillisecond ==
    SeekOvershot =>
        /\ call.result = "true"
        /\ m_packetList[TestStream] # <<>>
        /\ Head(m_packetList[TestStream]) = call.kept
        /\ ExtraAudioTime = 0
        /\ KeptPosition - call.target <= ToleratedOvershoot => call.log = <<>>
        /\ call.log # <<>> => KeptPosition - call.target > ToleratedOvershoot

\* ------------------------------------------------------------------------
\* Channel alignment of the discarded samples
\* ------------------------------------------------------------------------
\* C27: the number of interleaved samples onGetData discards from a frame
\* is a multiple of the channel count and at most the frame's sample count,
\* so the samples copied into the chunk start on a left-channel sample and
\* the chunk keeps a whole number of sample pairs.
DiscardKeepsChannelsAligned ==
    /\ sink.frame.discarded % StereoChannelCount = 0
    /\ sink.frame.count % StereoChannelCount = 0
    /\ sink.frame.discarded <= sink.frame.count
    /\ sink.sampleCount % StereoChannelCount = 0

\* A frame was trimmed in part: the copy started inside the frame.
DiscardWitness ==
    /\ sink.frame.discarded > 0
    /\ sink.frame.discarded < sink.frame.count
    /\ sink.sampleCount = sink.frame.before
                            + (sink.frame.count - sink.frame.discarded)

\* ------------------------------------------------------------------------
\* Lock order between the Demuxer and a stream's queue
\* ------------------------------------------------------------------------
\* Thread t is at a lock instruction for a mutex another thread owns.
WaitsFor(t, u) ==
    /\ AtInstr(t, "lock")
    /\ MutexOf(Instr(t).what).owner = u

\* C28: with the control thread feeding the stream through the Demuxer
\* (Demuxer lock, then queue lock) and the sink's thread inside
\* popEncodedData (queue lock, then Demuxer lock in requestMoreData), no
\* reachable state has each thread waiting for the lock the other holds.
NoLockOrderDeadlock ==
    ~(WaitsFor("control", "sink") /\ WaitsFor("sink", "control"))
====
